---------------------------- MODULE Spec2Model ----------------------------
(***************************************************************************)
(* A model of the request-serving core of HFS (src/src/middlewares.ts and  *)
(* the archive walker of zip.ts, src/unnamed/part_000).                    *)
(*                                                                         *)
(* The module holds five state machines:                                   *)
(*   SpecGate  someSecurity, with the process-wide proxyDetected flag      *)
(*   SpecPipe  prepareState wrapping serveGuiAndSharedFiles and getUpload  *)
(*   SpecHead  headRequests, a GET and a HEAD run over one downstream      *)
(*   SpecZip   zipStreamFromFolder's filtered walk, with client abort      *)
(*   SpecConn  prepareState's connection update, requests interleaved      *)
(* Code that lives outside the three source files (vfs, misc, perm,        *)
(* connections, const) is modelled from the specification's words; the     *)
(* Koa setters and JavaScript built-ins are modelled by what they do.      *)
(***************************************************************************)
EXTENDS Integers, Sequences, FiniteSets, TLC

VARIABLES
    \* ---- someSecurity ----
    DEV,            \* const DEV: the development-mode flag of the process
    proxyDetected,  \* let proxyDetected = false (module level)
    g_pc,           \* "idle" | "recv" | "done"
    g_req,          \* the request the gate is handling
    g_ctx,          \* what the gate did to ctx
    \* ---- prepareState, serveGuiAndSharedFiles, getUpload ----
    connections,    \* socket -> connection record (connections.ts)
    p_id,           \* number of the request in flight (identifies its ctx)
    p_pc,           \* where the request is in the chain
    p_req,          \* the request
    p_ctx,          \* ctx: response status, body, headers, ctx.state
    p_node,         \* what urlToNode(path) answered
    p_def,          \* what urlToNode(path + node.default) answered
    p_folder,       \* what urlToNode(dirname(path)) answered (PUT)
    p_calls,        \* handlers and fs operations invoked for this request
    p_down,         \* downstream of prepareState: "no" | "running" | "returned" | "threw"
    \* ---- headRequests ----
    h_pc,           \* "idle" | "running"
    h_out,          \* what the downstream chain does to the response
    h_run,          \* the GET run and the HEAD run of that chain
    \* ---- zipStreamFromFolder ----
    z_pc,           \* "idle" | "walk" | "stat" | "end"
    z_entries,      \* the entries walkNode yields, in walk order
    z_i,            \* how many of them the walker has taken
    z_aborted,      \* ctx.req.aborted
    z_emitted,      \* the entries handed to QuickZipStream, in order
    z_fs,           \* the fs calls made: [op, entry, aborted at the call]
    \* ---- prepareState, several requests in flight ----
    c_req,          \* slot -> the request it carries: pc, socket, conn, id
    c_n             \* requests received so far (the last ctx made)

gateVars == <<DEV, proxyDetected, g_pc, g_req, g_ctx>>
pipeVars == <<connections, p_id, p_pc, p_req, p_ctx, p_node, p_def, p_folder, p_calls, p_down>>

headVars == <<h_pc, h_out, h_run>>
zipVars == <<z_pc, z_entries, z_i, z_aborted, z_emitted, z_fs>>

connVars == <<c_req, c_n>>
\* the variables of the single-request chain other than the connection records
pipeRest == <<p_id, p_pc, p_req, p_ctx, p_node, p_def, p_folder, p_calls, p_down>>

vars == <<gateVars, pipeVars, headVars, zipVars, connVars>>

\* ------------------------------------------------------------------------
\* HTTP status codes (const.ts, imported at middlewares.ts:6-15)
\* ------------------------------------------------------------------------
HTTP_OK == 200
HTTP_FOUND == 302
HTTP_UNAUTHORIZED == 401
HTTP_FORBIDDEN == 403
HTTP_NOT_FOUND == 404
HTTP_FOOL == 418

None == "none"

\* ------------------------------------------------------------------------
\* someSecurity
\* ------------------------------------------------------------------------
\* Longest raw path, in characters, the gate is given.
MaxPathLen == 4

\* A raw path is a sequence of characters; a percent escape is one element.
\* "%2E" is an escaped dot, "%2F" an escaped slash, "%" an escape that is not
\* followed by two hex digits.
RawChars == {"/", ".", "a", "%2E", "%2F", "%"}

RECURSIVE SeqsUpTo(_, _)
SeqsUpTo(S, n) ==
    IF n = 0 THEN {<<>>}
    ELSE LET shorter == SeqsUpTo(S, n - 1)
         IN  shorter \cup {Append(s, c) : s \in {t \in shorter : Len(t) = n - 1}, c \in S}

\* ctx.path always starts with a slash
RawPaths == {<<"/">> \o s : s \in SeqsUpTo(RawChars, MaxPathLen - 1)}

\* decodeURI: every escape is decoded except those of the reserved set
\* ; / ? : @ & = + $ , #  which stay as written; a malformed escape throws.
decodeURI(s) ==
    IF \E i \in 1..Len(s) : s[i] = "%"
    THEN [threw |-> TRUE, val |-> <<>>]
    ELSE [threw |-> FALSE,
          val |-> [i \in 1..Len(s) |-> IF s[i] = "%2E" THEN "." ELSE s[i]]]

\* dirTraversal (misc.ts): the string holds a ".." segment
dirTraversal(s) ==
    \E i \in 1..(Len(s) - 1) :
        /\ s[i] = "." /\ s[i + 1] = "."
        /\ (i = 1 \/ s[i - 1] = "/")
        /\ (i + 1 = Len(s) \/ s[i + 2] = "/")

GateThrowers == {None, "normalizeIp", "applyBlock"}

GateRequests ==
    [path : RawPaths,
     xff : {"", "1.2.3.4"},      \* X-Forwarded-For
     devPort : BOOLEAN,           \* X-Forwarded-port names FRONTEND_PROXY or ADMIN_PROXY
     blocked : BOOLEAN,           \* what applyBlock(ctx.socket, ctx.ip) answers
     thr : GateThrowers]          \* the collaborator that throws, if any

NoGateReq == [path |-> <<"/">>, xff |-> "", devPort |-> FALSE, blocked |-> FALSE, thr |-> None]
FreshGateCtx == [status |-> HTTP_NOT_FOUND, proxiedFor |-> None, nextCalled |-> FALSE, threw |-> FALSE]

GateInit ==
    /\ DEV \in BOOLEAN
    /\ proxyDetected = FALSE
    /\ g_pc = "idle"
    /\ g_req = NoGateReq
    /\ g_ctx = FreshGateCtx

\* a request reaches the gate
GateReceive ==
    /\ g_pc = "idle"
    /\ \E r \in GateRequests : g_req' = r
    /\ g_ctx' = FreshGateCtx
    /\ g_pc' = "recv"
    /\ UNCHANGED <<DEV, proxyDetected>>
    /\ UNCHANGED <<pipeVars, headVars, zipVars, connVars>>

\* the forwarding header after the dev-proxy suppression
GateProxy(r) == IF DEV /\ r.xff # "" /\ r.devPort THEN "" ELSE r.xff

\* The outcome of the handler for request r: one of
\* "escape" (exception leaves the handler), "fool", "blocked", "pass".
GateOutcome(r) ==
    IF r.thr = "normalizeIp" THEN "escape"
    ELSE LET d == decodeURI(r.path)
         IN  IF d.threw THEN "fool"
             ELSE IF dirTraversal(d.val) THEN "fool"
             ELSE IF r.thr = "applyBlock" THEN "fool"
             ELSE IF r.blocked THEN "blocked"
             ELSE "pass"

\* a variant that assigns the flag instead of accumulating it
ProxyFlag_assign(flag, proxy) == proxy # ""

\* proxyDetected ||= proxy > ''
ProxyFlag(flag, proxy) == flag \/ proxy # ""

\* the whole handler: it has no suspension point before it returns next()
someSecurity ==
    /\ g_pc = "recv"
    /\ LET o == GateOutcome(g_req)
       IN  /\ g_ctx' = [g_ctx EXCEPT
                          !.status = IF o = "fool" THEN HTTP_FOOL ELSE @,
                          !.proxiedFor = IF o = "pass" THEN GateProxy(g_req) ELSE @,
                          !.nextCalled = (o = "pass"),
                          !.threw = (o = "escape")]
           /\ proxyDetected' = IF o = "pass" THEN ProxyFlag(proxyDetected, GateProxy(g_req))
                               ELSE proxyDetected
    /\ g_pc' = "done"
    /\ UNCHANGED <<DEV, g_req>>
    /\ UNCHANGED <<pipeVars, headVars, zipVars, connVars>>

\* the response is sent; the process waits for the next request
GateFinish ==
    /\ g_pc = "done"
    /\ g_pc' = "idle"
    /\ g_req' = NoGateReq
    /\ g_ctx' = FreshGateCtx
    /\ UNCHANGED <<DEV, proxyDetected>>
    /\ UNCHANGED <<pipeVars, headVars, zipVars, connVars>>

GateNext == GateReceive \/ someSecurity \/ GateFinish

\* ------------------------------------------------------------------------
\* Koa's response, as far as the handlers use it
\* ------------------------------------------------------------------------
\* a fresh ctx: status 404 until a handler sets one, no body, no headers
FreshCtx ==
    [status |-> HTTP_NOT_FOUND, explicit |-> FALSE, body |-> None,
     www |-> FALSE, location |-> <<>>, server |-> FALSE,
     account |-> None, connection |-> None, serveApp |-> FALSE]

\* ctx.status = code
SetStatus(c, code) == [c EXCEPT !.status = code, !.explicit = TRUE]

\* ctx.body = val, for a non-empty val: the status becomes 200 unless one was set
SetBody(c, val) ==
    [c EXCEPT !.body = val,
              !.status = IF c.explicit THEN @ ELSE HTTP_OK,
              !.explicit = TRUE]

\* ctx.redirect(url): Location, status 302 and a short body naming the url
Redirect(c, url) ==
    [c EXCEPT !.location = url, !.status = HTTP_FOUND, !.explicit = TRUE,
              !.body = "redirecting"]

\* ------------------------------------------------------------------------
\* Accounts (perm.ts) and the password proof
\* ------------------------------------------------------------------------
Accounts == {"alice", "bob", "carol"}
\* the accounts that carry a verifier (account.srp)
SrpAccounts == {"alice", "bob"}

\* getAccount(username): the account of that name, or undefined
getAccount(username) == IF username \in Accounts THEN username ELSE None

NoCredentials == [present |-> FALSE, name |-> "", pass |-> ""]
\* basicAuth(ctx.req): undefined without an Authorization header; a password
\* is "right" when it is the named account's, "wrong" when not, or empty
Credentials ==
    {NoCredentials}
      \cup [present : {TRUE}, name : {"alice", "bob", "carol", "ghost"},
            pass : {"right", "wrong", ""}]

\* a variant of the guard that forgets the password
SrpGuard_noPassword(username, password) ==
    getAccount(username) = None \/ getAccount(username) \notin SrpAccounts

\* if (!account?.srp || !password) return false
SrpGuard(username, password) ==
    getAccount(username) = None \/ getAccount(username) \notin SrpAccounts \/ password = ""

\* srpCheck, lines 171-177: "guard" when line 172 returns false; else srpStep1
\* is called and the SRP exchange runs: "ok" when the server's step2 accepts
\* the proof (the password is the account's), "rejected" when it rejects it
\* (turned into false at line 177), "threw" when the client session refuses
\* to start (tssrp6a refuses an empty password)
SrpOutcome(username, password) ==
    IF SrpGuard(username, password) THEN "guard"
    ELSE CASE password = "right" -> "ok"
           [] password = "" -> "threw"
           [] OTHER -> "rejected"

srpCheck(username, password) == SrpOutcome(username, password) = "ok"

\* the outcome of the srpCheck that getHttpAccount makes, "none" if it makes none
HttpAccountCheck(req) ==
    LET credentials == req.cred
        account == getAccount(IF credentials.present THEN credentials.name ELSE "")
    IN  IF account = None THEN None ELSE SrpOutcome(account, credentials.pass)

\* a variant that takes the named account without its proof
getHttpAccount_noProof(req) ==
    getAccount(IF req.cred.present THEN req.cred.name ELSE "")

getHttpAccount(req) ==
    LET credentials == req.cred
        account == getAccount(IF credentials.present THEN credentials.name ELSE "")
    IN  IF account # None /\ srpCheck(account, credentials.pass) THEN account ELSE None

\* a variant that asks the session before the Authorization header
ResolveAccount_sessionFirst(req) ==
    IF getAccount(req.session) # None THEN getAccount(req.session)
    ELSE getHttpAccount(req)

\* ctx.state.account = await getHttpAccount(ctx) ?? getAccount(ctx.session?.username, false)
ResolveAccount(req) ==
    IF getHttpAccount(req) # None THEN getHttpAccount(req)
    ELSE getAccount(req.session)

\* ------------------------------------------------------------------------
\* Paths, nodes and permissions (vfs.ts)
\* ------------------------------------------------------------------------
\* A path is the sequence of its segments; "/d/" is <<"d", "">>, "/" is <<"">>.
FRONTEND_URI == <<"~", "frontend", "">>
ADMIN_URI == <<"~", "admin", "">>

PipePaths ==
    {<<"~", "frontend", "x">>, <<"~", "admin">>, <<"~", "admin", "">>,
     <<"~", "admin", "x">>, <<"d">>, <<"d", "">>, <<"d", "f">>}

\* path.startsWith(uri), uri ending with a slash
StartsWith(path, uri) ==
    /\ Len(path) >= Len(uri)
    /\ \A i \in 1..(Len(uri) - 1) : path[i] = uri[i]

\* path.endsWith('/')
EndsWithSlash(path) == path[Len(path)] = ""

\* who may use a permission: anyone, no one (false), any account ('*'),
\* or one named account
Who == {"anyone", "noone", "anyAccount", "alice"}

\* hasPermission(node, perm, ctx), given the node's value for perm;
\* a node without can_upload gives no upload permission
matchWho(who, account) ==
    CASE who = "anyone" -> TRUE
      [] who = "anyAccount" -> account # None
      [] who = "alice" -> account = "alice"
      [] OTHER -> FALSE

\* cantReadStatusCode(node)
cantReadStatusCode(node) ==
    IF node.can_read = "noone" THEN HTTP_FORBIDDEN ELSE HTTP_UNAUTHORIZED

Unresolved == [kind |-> "unresolved", isDir |-> FALSE, source |-> FALSE,
               can_read |-> "anyone", can_upload |-> "unset", default |-> FALSE]
Missing == [Unresolved EXCEPT !.kind = "missing"]

\* what urlToNode(path) may answer
NodeAnswers ==
    {Missing} \cup [kind : {"node"}, isDir : BOOLEAN, source : BOOLEAN, can_read : Who,
                    can_upload : {"unset"}, default : BOOLEAN]
\* what urlToNode(path + node.default) may answer
DefAnswers ==
    {Missing} \cup [kind : {"node"}, isDir : {FALSE}, source : {TRUE}, can_read : Who,
                    can_upload : {"unset"}, default : {FALSE}]
\* what urlToNode(dirname(path)) may answer
FolderAnswers ==
    {Missing} \cup [kind : {"node"}, isDir : {TRUE}, source : BOOLEAN, can_read : {"anyone"},
                    can_upload : Who \cup {"unset"}, default : {FALSE}]

\* ------------------------------------------------------------------------
\* Connections (connections.ts)
\* ------------------------------------------------------------------------
Sockets == {"s1", "s2", "s3"}
\* requests served before the model stops taking new ones
MaxRequests == 2

\* socket2connection(socket): the record of a socket the tracker has seen
socket2connection(socket) == IF connections[socket].known THEN socket ELSE None

\* updateConnection(conn, { ctx })
updateConnection(conn, id) == [connections EXCEPT ![conn].ctx = id]

\* ------------------------------------------------------------------------
\* prepareState and serveGuiAndSharedFiles
\* ------------------------------------------------------------------------
PipeRequests ==
    [method : {"GET", "PUT"},
     path : PipePaths,
     get : {None, "zip"},                  \* ctx.query.get
     uir : {"", "1"},                      \* Upgrade-Insecure-Requests
     sfm : {"", "navigate"},               \* Sec-Fetch-Mode
     cred : Credentials,
     session : {None, "alice", "bob"},    \* ctx.session?.username
     bodySet : BOOLEAN,                    \* an earlier stage has set ctx.body
     socket : Sockets]

NoPipeReq ==
    [method |-> "GET", path |-> <<"">>, get |-> None, uir |-> "", sfm |-> "",
     cred |-> NoCredentials, session |-> None, bodySet |-> FALSE, socket |-> "s1"]

PipeInit ==
    /\ connections = [s \in Sockets |-> [known |-> (s # "s3"), ctx |-> 0]]
    /\ p_id = 0
    /\ p_pc = "idle"
    /\ p_req = NoPipeReq
    /\ p_ctx = FreshCtx
    /\ p_node = Unresolved
    /\ p_def = Unresolved
    /\ p_folder = Unresolved
    /\ p_calls = {}
    /\ p_down = "no"

\* a request reaches prepareState
PipeReceive ==
    /\ p_pc = "idle"
    /\ p_id < MaxRequests
    /\ \E r \in PipeRequests :
         /\ p_req' = r
         /\ p_ctx' = IF r.bodySet THEN SetBody(FreshCtx, "upstream") ELSE FreshCtx
    /\ p_id' = p_id + 1
    /\ p_pc' = "recv"
    /\ UNCHANGED <<connections, p_node, p_def, p_folder, p_calls, p_down>>
    /\ UNCHANGED <<gateVars, headVars, zipVars, connVars>>

\* prepareState up to `await next()`; an exception of the password proof
\* leaves prepareState before anything downstream runs
prepareState ==
    /\ p_pc = "recv"
    /\ LET check == HttpAccountCheck(p_req)
       IN  /\ p_calls' = IF check \in {"ok", "rejected", "threw"}
                         THEN p_calls \cup {"srpStep1"} ELSE p_calls
           /\ IF check = "threw"
              THEN /\ p_ctx' = p_ctx
                   /\ p_pc' = "done"
                   /\ p_down' = "authThrew"
              ELSE /\ p_ctx' = [p_ctx EXCEPT !.account = ResolveAccount(p_req),
                                             !.connection = socket2connection(p_req.socket)]
                   /\ p_pc' = "dispatch"
                   /\ p_down' = "running"
    /\ UNCHANGED <<connections, p_id, p_req, p_node, p_def, p_folder>>
    /\ UNCHANGED <<gateVars, headVars, zipVars, connVars>>

\* the dispatcher returns: control is back in prepareState
Return(c, calls) ==
    /\ p_ctx' = c
    /\ p_calls' = p_calls \cup calls
    /\ p_pc' = "post"
    /\ p_down' = "returned"

\* the dispatcher suspends at an await
Await(c, calls, pc) ==
    /\ p_ctx' = c
    /\ p_calls' = p_calls \cup calls
    /\ p_pc' = pc
    /\ p_down' = p_down

\* an exception leaves the dispatcher; prepareState has no handler for it, so
\* it leaves prepareState too, past the update
Throw(c, calls) ==
    /\ p_ctx' = c
    /\ p_calls' = p_calls \cup calls
    /\ p_pc' = "done"
    /\ p_down' = "threw"

\* lines 70-79, the routing before any lookup: where the dispatcher goes on
\* ("return" when it returns at once), with the ctx and the calls made
Route(c, req) ==
    LET path == req.path
    IN  IF c.body # None THEN [ctx |-> c, calls |-> {"next"}, to |-> "return"]
        ELSE IF StartsWith(path, FRONTEND_URI)
            THEN [ctx |-> c, calls |-> {"serveFrontendPrefixed"}, to |-> "return"]
        ELSE IF Append(path, "") = ADMIN_URI
            THEN [ctx |-> Redirect(c, ADMIN_URI), calls |-> {}, to |-> "return"]
        ELSE IF StartsWith(path, ADMIN_URI)
            THEN [ctx |-> c, calls |-> {"serveAdminPrefixed"}, to |-> "return"]
        ELSE IF req.method = "PUT" THEN [ctx |-> c, calls |-> {}, to |-> "putLookup"]
        ELSE [ctx |-> c, calls |-> {}, to |-> "lookup"]

\* serveGuiAndSharedFiles, lines 70-85, up to the first await
serveGuiAndSharedFiles ==
    /\ p_pc = "dispatch"
    /\ LET r == Route(p_ctx, p_req)
       IN  IF r.to = "return" THEN Return(r.ctx, r.calls)
           ELSE Await(r.ctx, r.calls, r.to)
    /\ UNCHANGED <<connections, p_id, p_req, p_node, p_def, p_folder>>
    /\ UNCHANGED <<gateVars, headVars, zipVars, connVars>>

hasPermission(node, perm, account) == matchWho(node[perm], account)

\* the record an inner step of the dispatcher hands back
Step(c, calls, await) == [ctx |-> c, calls |-> calls, await |-> await]

\* const browserDetected = ctx.get('Upgrade-Insecure-Requests') || ctx.get('Sec-Fetch-Mode')
browserDetected(req) == req.uir # "" \/ req.sfm # ""

\* a variant that challenges nobody and sends every soft denial to the front-end
DenyPath_noChallenge(c, req, node) ==
    LET c1 == SetStatus(c, cantReadStatusCode(node))
    IN  IF c1.status = HTTP_FORBIDDEN THEN Step(c1, {}, FALSE)
        ELSE Step([c1 EXCEPT !.serveApp = TRUE], {"serveFrontendFiles"}, FALSE)

\* a variant without the early return of a forbidden status
DenyPath_noForbiddenReturn(c, req, node) ==
    LET c1 == SetStatus(c, cantReadStatusCode(node))
    IN  IF ~browserDetected(req) THEN Step([c1 EXCEPT !.www = TRUE], {}, FALSE)
        ELSE Step([c1 EXCEPT !.serveApp = TRUE], {"serveFrontendFiles"}, FALSE)

\* lines 96-105: the node is not readable
DenyPath(c, req, node) ==
    LET c1 == SetStatus(c, cantReadStatusCode(node))
    IN  IF c1.status = HTTP_FORBIDDEN THEN Step(c1, {}, FALSE)
        ELSE IF ~browserDetected(req) THEN Step([c1 EXCEPT !.www = TRUE], {}, FALSE)
        ELSE Step([c1 EXCEPT !.serveApp = TRUE], {"serveFrontendFiles"}, FALSE)

\* a variant that redirects files, not folders
NeedsSlash_files(path, isFolder) == ~isFolder /\ ~EndsWithSlash(path)

\* isFolder && !path.endsWith('/')
NeedsSlash(path, isFolder) == isFolder /\ ~EndsWithSlash(path)

\* zipStreamFromFolder(node, ctx), lines 9-12 and 25: status, type, and the
\* archive stream as body
zipStreamFromFolder(c) == [SetStatus(c, HTTP_OK) EXCEPT !.body = "zip"]

\* lines 87-116, between the lookup of the node and the lookup of its default
ServeNode(c, req, node) ==
    IF node.kind = "missing" THEN Step(SetStatus(c, HTTP_NOT_FOUND), {}, FALSE)
    ELSE
    LET canRead == hasPermission(node, "can_read", c.account)
        isFolder == node.isDir
    IN  IF NeedsSlash(req.path, isFolder)
            THEN Step(Redirect(c, Append(req.path, "")), {}, FALSE)
        ELSE IF canRead /\ ~isFolder
            THEN Step(c, IF node.source THEN {"serveFileNode"} ELSE {"next"}, FALSE)
        ELSE IF ~canRead THEN DenyPath(c, req, node)
        ELSE LET c2 == [c EXCEPT !.server = TRUE]
             IN  IF req.get = "zip"
                     THEN Step(zipStreamFromFolder(c2), {"zipStreamFromFolder"}, FALSE)
                 ELSE IF node.default THEN Step(c2, {}, TRUE)
                 ELSE Step(c2, {"serveFrontendFiles"}, FALSE)

\* a variant that serves the default child without asking who may read it
ServeDefault_noCheck(c, def) ==
    IF def.kind = "missing" THEN Step(c, {"next"}, FALSE)
    ELSE Step(c, {"serveFileNode(def)"}, FALSE)

\* lines 112-114
ServeDefault(c, def) ==
    IF def.kind = "missing" THEN Step(c, {"next"}, FALSE)
    ELSE IF hasPermission(def, "can_read", c.account) THEN Step(c, {"serveFileNode(def)"}, FALSE)
    ELSE Step(SetStatus(c, cantReadStatusCode(def)), {}, FALSE)

\* `await urlToNode(path, ctx)` answers and the dispatcher runs on
Lookup ==
    /\ p_pc = "lookup"
    /\ \E node \in NodeAnswers :
         /\ p_node' = node
         /\ LET r == ServeNode(p_ctx, p_req, node)
            IN  IF r.await THEN Await(r.ctx, r.calls, "defLookup")
                ELSE Return(r.ctx, r.calls)
    /\ UNCHANGED <<connections, p_id, p_req, p_def, p_folder>>
    /\ UNCHANGED <<gateVars, headVars, zipVars, connVars>>

\* `await urlToNode(path + node.default, ctx)` answers
DefLookup ==
    /\ p_pc = "defLookup"
    /\ \E def \in DefAnswers :
         /\ p_def' = def
         /\ LET r == ServeDefault(p_ctx, def)
            IN  Return(r.ctx, r.calls)
    /\ UNCHANGED <<connections, p_id, p_req, p_node, p_folder>>
    /\ UNCHANGED <<gateVars, headVars, zipVars, connVars>>

\* a variant that checks the source and forgets the permission
UploadAllowed_sourceOnly(base, account) == base.source

\* the negation of getUpload's guard: base.source && hasPermission(base, 'can_upload', ctx)
UploadAllowed(base, account) == base.source /\ hasPermission(base, "can_upload", account)

\* base.can_upload === false ? HTTP_FORBIDDEN : HTTP_UNAUTHORIZED
UploadDenyStatus(base) ==
    IF base.can_upload = "noone" THEN HTTP_FORBIDDEN ELSE HTTP_UNAUTHORIZED

\* lines 82-83 and 120-121: the answers given before the file system is touched;
\* "fs" when the upload goes on to mkdirSync
UploadGuard(c, folder) ==
    IF folder.kind = "missing"
        THEN [ctx |-> SetStatus(c, HTTP_NOT_FOUND), calls |-> {}, to |-> "return"]
    ELSE IF ~UploadAllowed(folder, c.account)
        THEN [ctx |-> SetStatus(c, UploadDenyStatus(folder)), calls |-> {}, to |-> "return"]
    ELSE [ctx |-> c, calls |-> {}, to |-> "fs"]

\* `await urlToNode(dirname(path), ...)` answers; getUpload runs up to
\* `await pipeline(stream, dest)`. mkdirSync may throw.
PutLookup ==
    /\ p_pc = "putLookup"
    /\ \E folder \in FolderAnswers, mkdirThrows \in BOOLEAN :
         /\ p_folder' = folder
         /\ LET r == UploadGuard(p_ctx, folder)
            IN  IF r.to = "return" THEN Return(r.ctx, r.calls)
                ELSE IF mkdirThrows THEN Throw(p_ctx, {"mkdirSync"})
                ELSE Await(p_ctx, {"mkdirSync", "createWriteStream"}, "upload")
    /\ UNCHANGED <<connections, p_id, p_req, p_node, p_def>>
    /\ UNCHANGED <<gateVars, headVars, zipVars, connVars>>

\* `await pipeline(stream, dest)` settles: the body was written, or the
\* request stream or the file failed and the promise rejects
UploadEnd ==
    /\ p_pc = "upload"
    /\ \E written \in BOOLEAN :
         IF written THEN Return(SetBody(p_ctx, "{}"), {"written"})
         ELSE Throw(p_ctx, {})
    /\ UNCHANGED <<connections, p_id, p_req, p_node, p_def, p_folder>>
    /\ UNCHANGED <<gateVars, headVars, zipVars, connVars>>

\* prepareState after `await next()`: if (conn) updateConnection(conn, { ctx })
prepareStatePost ==
    /\ p_pc = "post"
    /\ connections' = IF p_ctx.connection # None
                      THEN updateConnection(p_ctx.connection, p_id)
                      ELSE connections
    /\ p_pc' = "done"
    /\ UNCHANGED <<p_id, p_req, p_ctx, p_node, p_def, p_folder, p_calls, p_down>>
    /\ UNCHANGED <<gateVars, headVars, zipVars, connVars>>

\* the response is sent; the next request on the server may come
PipeFinish ==
    /\ p_pc = "done"
    /\ p_pc' = "idle"
    /\ p_req' = NoPipeReq
    /\ p_ctx' = FreshCtx
    /\ p_node' = Unresolved
    /\ p_def' = Unresolved
    /\ p_folder' = Unresolved
    /\ p_calls' = {}
    /\ p_down' = "no"
    /\ UNCHANGED <<connections, p_id>>
    /\ UNCHANGED <<gateVars, headVars, zipVars, connVars>>

PipeNext ==
    \/ PipeReceive \/ prepareState \/ serveGuiAndSharedFiles \/ Lookup \/ DefLookup
    \/ PutLookup \/ UploadEnd \/ prepareStatePost \/ PipeFinish

\* ------------------------------------------------------------------------
\* headRequests
\* ------------------------------------------------------------------------
\* longest body, in bytes, a downstream handler produces
MaxBodyLen == 2

\* no Content-Length header; also the `undefined` of response.length
NoLength == -1

\* a response: body is "none" (undefined), "null", "string" or "stream";
\* bytes is what the body would put on the wire; cl is the Content-Length header
FreshResponse ==
    [status |-> HTTP_NOT_FOUND, explicit |-> FALSE, body |-> None, bytes |-> 0,
     cl |-> NoLength]

\* the status codes that allow no body (statuses.empty)
EmptyStatuses == {204, 205, 304}

\* JavaScript truthiness of ctx.body
Truthy(r) == r.body = "stream" \/ (r.body = "string" /\ r.bytes > 0)

\* Koa: response.body = val, val a string or a stream of `bytes` bytes.
\* A string sets Content-Length; a stream that replaces a body removes it.
KoaSetBody(r, kind, bytes) ==
    LET r1 == [r EXCEPT !.status = IF r.explicit THEN @ ELSE HTTP_OK, !.explicit = TRUE]
    IN  IF kind = "string"
        THEN [r1 EXCEPT !.body = "string", !.bytes = bytes, !.cl = bytes]
        ELSE [r1 EXCEPT !.body = "stream", !.bytes = bytes,
                        !.cl = IF r.body \in {None, "null"} THEN @ ELSE NoLength]

\* Koa: response.status = code; a status that allows no body drops the body
KoaSetStatus(r, code) ==
    LET r1 == [r EXCEPT !.status = code, !.explicit = TRUE]
    IN  IF Truthy(r) /\ code \in EmptyStatuses
        THEN [r1 EXCEPT !.body = "null", !.bytes = 0, !.cl = NoLength]
        ELSE r1

\* Koa: response.length (getter): the header if there is one, else the size of
\* a string body, else undefined
KoaLength(r) ==
    IF r.cl # NoLength THEN r.cl
    ELSE IF ~Truthy(r) \/ r.body = "stream" THEN NoLength
    ELSE r.bytes

\* Koa: response.length = n
KoaSetLength(r, n) == [r EXCEPT !.cl = n]

\* what a downstream chain may do to the response
HeadOutcomes ==
    [kind : {"string"}, len : 0..MaxBodyLen, known : {TRUE}, status : {HTTP_OK}]
      \cup [kind : {"stream"}, len : 0..MaxBodyLen, known : BOOLEAN, status : {HTTP_OK}]
      \cup [kind : {"redirect"}, len : {MaxBodyLen}, known : {TRUE}, status : {HTTP_FOUND}]
      \cup [kind : {"none"}, len : {0}, known : {FALSE},
            status : {HTTP_NOT_FOUND, HTTP_UNAUTHORIZED, HTTP_FORBIDDEN, HTTP_FOOL}]

NoOutcome == [kind |-> "none", len |-> 0, known |-> FALSE, status |-> HTTP_NOT_FOUND]

\* the downstream chain, run on response r
Downstream(r, out) ==
    CASE out.kind = "string" -> KoaSetBody(r, "string", out.len)
      [] out.kind = "stream" ->
            IF out.known THEN KoaSetLength(KoaSetBody(r, "stream", out.len), out.len)
            ELSE KoaSetBody(r, "stream", out.len)
      [] out.kind = "redirect" -> KoaSetBody(KoaSetStatus(r, HTTP_FOUND), "string", out.len)
      [] OTHER -> KoaSetStatus(r, out.status)

Runs == {"GET", "HEAD"}

FreshRun(m) == [pc |-> "recv", method |-> m, resp |-> FreshResponse]

HeadInit ==
    /\ h_pc = "idle"
    /\ h_out = NoOutcome
    /\ h_run = [m \in Runs |-> FreshRun(m)]

\* the same path is requested once as GET and once as HEAD
HeadReceive ==
    /\ h_pc = "idle"
    /\ \E out \in HeadOutcomes : h_out' = out
    /\ h_run' = [m \in Runs |-> FreshRun(m)]
    /\ h_pc' = "running"
    /\ UNCHANGED <<gateVars, pipeVars, zipVars, connVars>>

\* headRequests up to `await next()`
headRequests(m) ==
    /\ h_pc = "running"
    /\ h_run[m].pc = "recv"
    /\ h_run' = [h_run EXCEPT ![m].pc = "next",
                              ![m].method = IF @ = "HEAD" THEN "GET" ELSE @]
    /\ UNCHANGED <<h_pc, h_out>>
    /\ UNCHANGED <<gateVars, pipeVars, zipVars, connVars>>

\* the downstream chain runs and returns
HeadDownstream(m) ==
    /\ h_pc = "running"
    /\ h_run[m].pc = "next"
    /\ h_run' = [h_run EXCEPT ![m].pc = "post", ![m].resp = Downstream(@, h_out)]
    /\ UNCHANGED <<h_pc, h_out>>
    /\ UNCHANGED <<gateVars, pipeVars, zipVars, connVars>>

\* lines 49-55, for the run that came in as HEAD (head = true)
HeadFinalize(r) ==
    IF r.body = None THEN r
    ELSE LET length == KoaLength(r)
             status == r.status
             r1 == IF Truthy(r) THEN KoaSetBody(r, "stream", 0) ELSE r
             r2 == KoaSetStatus(r1, status)
         IN  IF length # NoLength /\ length # 0 THEN KoaSetLength(r2, length) ELSE r2

\* headRequests after `await next()`
headRequestsPost(m) ==
    /\ h_pc = "running"
    /\ h_run[m].pc = "post"
    /\ h_run' = [h_run EXCEPT ![m].pc = "done",
                              ![m].resp = IF m = "HEAD" THEN HeadFinalize(@) ELSE @]
    /\ UNCHANGED <<h_pc, h_out>>
    /\ UNCHANGED <<gateVars, pipeVars, zipVars, connVars>>

\* both responses are sent
HeadFinish ==
    /\ h_pc = "running"
    /\ \A m \in Runs : h_run[m].pc = "done"
    /\ h_pc' = "idle"
    /\ h_out' = NoOutcome
    /\ h_run' = [m \in Runs |-> FreshRun(m)]
    /\ UNCHANGED <<gateVars, pipeVars, zipVars, connVars>>

HeadNext ==
    \/ HeadReceive
    \/ \E m \in Runs : headRequests(m) \/ HeadDownstream(m) \/ headRequestsPost(m)
    \/ HeadFinish

\* ------------------------------------------------------------------------
\* zipStreamFromFolder
\* ------------------------------------------------------------------------
\* most entries a walk yields
MaxEntries == 3

\* an entry of the walk: a regular file, a directory (or anything stat finds
\* that is no regular file), a node without source, or a node whose stat fails
EntryKinds == {"file", "dir", "nosource", "statfail"}

ZipInit ==
    /\ z_pc = "idle"
    /\ z_entries = <<>>
    /\ z_i = 0
    /\ z_aborted = FALSE
    /\ z_emitted = <<>>
    /\ z_fs = {}

\* zipStreamFromFolder(node, ctx): the walker is built and handed to the encoder
ZipStart ==
    /\ z_pc = "idle"
    /\ \E es \in SeqsUpTo(EntryKinds, MaxEntries) : z_entries' = es
    /\ z_pc' = "walk"
    /\ z_i' = 0
    /\ z_aborted' = FALSE
    /\ z_emitted' = <<>>
    /\ z_fs' = {}
    /\ UNCHANGED <<gateVars, pipeVars, headVars, connVars>>

\* if (!el.source || ctx.req.aborted) return
SkipsBeforeStat(kind, aborted) == kind = "nosource" \/ aborted

\* filterMapGenerator takes the next entry of the walk and calls the callback,
\* which runs up to `await fs.stat(el.source)`; the walk ends after the last entry
ZipPull ==
    /\ z_pc = "walk"
    /\ IF z_i = Len(z_entries)
       THEN /\ z_pc' = "end"
            /\ UNCHANGED <<z_i, z_fs>>
       ELSE /\ z_i' = z_i + 1
            /\ IF SkipsBeforeStat(z_entries[z_i + 1], z_aborted)
               THEN /\ z_pc' = "walk"
                    /\ z_fs' = z_fs
               ELSE /\ z_pc' = "stat"
                    /\ z_fs' = z_fs \cup {[op |-> "stat", entry |-> z_i + 1, aborted |-> z_aborted]}
    /\ UNCHANGED <<z_entries, z_aborted, z_emitted>>
    /\ UNCHANGED <<gateVars, pipeVars, headVars, connVars>>

\* a variant without the try/catch: a failing stat ends the walk
StatOutcome_noCatch(kind) ==
    CASE kind = "file" -> "emit"
      [] kind = "statfail" -> "throw"
      [] OTHER -> "skip"

\* lines 16-22: a stat that throws and a stat of something that is no regular
\* file give undefined; a regular file gives an entry
StatOutcome(kind) == IF kind = "file" THEN "emit" ELSE "skip"

\* fs.stat settles and the callback runs to its end; an entry it returns is
\* yielded to the encoder, with a read stream opened on the file
ZipStatDone ==
    /\ z_pc = "stat"
    /\ LET o == StatOutcome(z_entries[z_i])
       IN  /\ z_pc' = IF o = "throw" THEN "end" ELSE "walk"
           /\ z_emitted' = IF o = "emit" THEN Append(z_emitted, z_i) ELSE z_emitted
           /\ z_fs' = IF o = "emit"
                      THEN z_fs \cup {[op |-> "createReadStream", entry |-> z_i,
                                       aborted |-> z_aborted]}
                      ELSE z_fs
    /\ UNCHANGED <<z_entries, z_i, z_aborted>>
    /\ UNCHANGED <<gateVars, pipeVars, headVars, connVars>>

\* the client closes the connection
ZipAbort ==
    /\ z_pc \in {"walk", "stat"}
    /\ ~z_aborted
    /\ z_aborted' = TRUE
    /\ UNCHANGED <<z_pc, z_entries, z_i, z_emitted, z_fs>>
    /\ UNCHANGED <<gateVars, pipeVars, headVars, connVars>>

\* the response is over
ZipFinish ==
    /\ z_pc = "end"
    /\ z_pc' = "idle"
    /\ z_entries' = <<>>
    /\ z_i' = 0
    /\ z_aborted' = FALSE
    /\ z_emitted' = <<>>
    /\ z_fs' = {}
    /\ UNCHANGED <<gateVars, pipeVars, headVars, connVars>>

ZipNext == ZipStart \/ ZipPull \/ ZipStatDone \/ ZipAbort \/ ZipFinish

\* ------------------------------------------------------------------------
\* prepareState with several requests in flight
\* ------------------------------------------------------------------------
\* requests that may be in flight together
MaxInFlight == 2
\* requests received before the model stops taking new ones
MaxConnRequests == 3

Slots == 1..MaxInFlight

IdleSlot == [pc |-> "idle", socket |-> None, conn |-> None, id |-> 0]

ConnInit ==
    /\ c_req = [i \in Slots |-> IdleSlot]
    /\ c_n = 0

\* a request arrives on a socket that carries no other request (the transport
\* serializes the requests of one socket) and prepareState starts:
\* it suspends at `await getHttpAccount(ctx)`
ConnReceive(i) ==
    /\ c_req[i].pc = "idle"
    /\ c_n < MaxConnRequests
    /\ \E s \in Sockets :
         /\ \A j \in Slots : c_req[j].pc # "idle" => c_req[j].socket # s
         /\ c_req' = [c_req EXCEPT ![i] = [pc |-> "auth", socket |-> s, conn |-> None,
                                           id |-> c_n + 1]]
    /\ c_n' = c_n + 1
    /\ UNCHANGED <<gateVars, pipeVars, headVars, zipVars>>

\* line 157, when getHttpAccount has settled: the record of the request's
\* socket is looked up and kept in `conn`; prepareState suspends at `await next()`
ConnLookup(i) ==
    /\ c_req[i].pc = "auth"
    /\ c_req' = [c_req EXCEPT ![i].pc = "next",
                              ![i].conn = socket2connection(c_req[i].socket)]
    /\ UNCHANGED c_n
    /\ UNCHANGED <<gateVars, pipeVars, headVars, zipVars>>

\* everything downstream of prepareState completes, or throws
ConnDownstream(i) ==
    /\ c_req[i].pc = "next"
    /\ \E returns \in BOOLEAN :
         c_req' = [c_req EXCEPT ![i].pc = IF returns THEN "post" ELSE "done"]
    /\ UNCHANGED c_n
    /\ UNCHANGED <<gateVars, pipeVars, headVars, zipVars>>

\* a variant that keeps `conn` in one variable shared by the requests in
\* flight: a request finds there what a later arrival looked up
PostTarget_shared(i) ==
    LET later == {j \in Slots : c_req[j].pc \in {"next", "post"} /\ c_req[j].id > c_req[i].id}
    IN  IF later = {} THEN c_req[i].conn
        ELSE c_req[CHOOSE j \in later : \A k \in later : c_req[k].id <= c_req[j].id].conn

\* the `conn` of the request, a constant of its own call of prepareState
PostTarget(i) == c_req[i].conn

\* lines 159-160: if (conn) updateConnection(conn, { ctx })
ConnPost(i) ==
    /\ c_req[i].pc = "post"
    /\ connections' = IF PostTarget(i) # None
                      THEN updateConnection(PostTarget(i), c_req[i].id)
                      ELSE connections
    /\ c_req' = [c_req EXCEPT ![i].pc = "done"]
    /\ UNCHANGED c_n
    /\ UNCHANGED <<gateVars, pipeRest, headVars, zipVars>>

\* the response is sent and the socket is free for its next request
ConnFinish(i) ==
    /\ c_req[i].pc = "done"
    /\ c_req' = [c_req EXCEPT ![i] = IdleSlot]
    /\ UNCHANGED c_n
    /\ UNCHANGED <<gateVars, pipeVars, headVars, zipVars>>

ConnNext ==
    \E i \in Slots :
        ConnReceive(i) \/ ConnLookup(i) \/ ConnDownstream(i) \/ ConnPost(i) \/ ConnFinish(i)

Init == GateInit /\ PipeInit /\ HeadInit /\ ZipInit /\ ConnInit

SpecGate == Init /\ [][GateNext]_vars
SpecPipe == Init /\ [][PipeNext]_vars
SpecHead == Init /\ [][HeadNext]_vars
SpecZip == Init /\ [][ZipNext]_vars
SpecConn == Init /\ [][ConnNext]_vars

\* ------------------------------------------------------------------------
\* C1
\* ------------------------------------------------------------------------
\* the path with every escape decoded, the reading of "once percent-decoded"
PercentDecoded(s) ==
    [i \in 1..Len(s) |->
        CASE s[i] = "%2E" -> "."
          [] s[i] = "%2F" -> "/"
          [] OTHER -> s[i]]

GateHandled == g_pc = "done" /\ ~g_ctx.threw

\* C1 (as claimed): every request whose percent-decoded path holds a ".."
\* segment ends with HTTP_FOOL and next() not invoked, whatever escapes wrote
\* the dots and the separators.
C1_TraversalRejected ==
    (GateHandled /\ dirTraversal(PercentDecoded(g_req.path)))
        => (g_ctx.status = HTTP_FOOL /\ ~g_ctx.nextCalled)

\* ------------------------------------------------------------------------
\* C2
\* ------------------------------------------------------------------------
\* prepareState has resolved the account of the request in flight
PreDone == p_pc \notin {"idle", "recv"}

\* the Basic credentials name an account and their password proof succeeds
ProofSucceeds(cred) == cred.present /\ cred.name \in SrpAccounts /\ cred.pass = "right"

Returned == p_down = "returned"

\* the calls the dispatcher made (srpStep1 is prepareState's)
DispatcherCalls == p_calls \ {"srpStep1"}

\* line 86 answered a node
Resolved == p_node.kind = "node"

Readable(node) == matchWho(node.can_read, p_ctx.account)

NoBrowserHeader == p_req.uir = "" /\ p_req.sfm = ""

SoftDenied ==
    /\ Resolved
    /\ ~Readable(p_node)
    /\ p_node.can_read # "noone"
    /\ NoBrowserHeader

ChallengeOnly ==
    /\ p_ctx.status = HTTP_UNAUTHORIZED
    /\ p_ctx.www
    /\ p_ctx.body = None
    /\ "serveFrontendFiles" \notin p_calls
    /\ "next" \notin p_calls

\* C3 (as claimed): every non-PUT request outside the prefixes whose resolved
\* node is unreadable with a soft denial, sent without a browser header, ends
\* unauthorized with WWW-Authenticate: Basic, no body, no front-end, no next.
C3_SoftDenyChallenged ==
    (Returned /\ p_req.method # "PUT" /\ SoftDenied) => ChallengeOnly

\* C3 (amended): the same, for a node that is not a directory asked for
\* without a trailing slash (that request is redirected to the slash form
\* before its readability is looked at).
C3_SoftDenyChallengedUnlessSlashRedirect ==
    (Returned /\ p_req.method # "PUT" /\ SoftDenied
        /\ ~(p_node.isDir /\ ~EndsWithSlash(p_req.path)))
        => ChallengeOnly

C3_Witness ==
    /\ Returned /\ SoftDenied
    /\ ~(p_node.isDir /\ ~EndsWithSlash(p_req.path))
    /\ p_ctx.www /\ p_ctx.status = HTTP_UNAUTHORIZED

\* the code computed a denial status for the node (line 97) or for its
\* default child (line 114), and it is forbidden
HardDenyComputed ==
    \/ /\ Resolved /\ ~Readable(p_node) /\ p_node.can_read = "noone"
       /\ ~(p_node.isDir /\ ~EndsWithSlash(p_req.path))
    \/ /\ p_def.kind = "node" /\ ~Readable(p_def) /\ p_def.can_read = "noone"

\* C4: whenever the denial status computed for an unreadable node is
\* forbidden, the dispatcher ends forbidden, with no body, no WWW-Authenticate
\* header, no front-end handler and no next stage, whatever browser headers
\* the request carries.
C4_HardDenyBare ==
    (Returned /\ HardDenyComputed)
        => /\ p_ctx.status = HTTP_FORBIDDEN
           /\ p_ctx.body = None
           /\ ~p_ctx.www
           /\ "serveFrontendFiles" \notin p_calls
           /\ "next" \notin p_calls

C4_Witness ==
    /\ Returned /\ HardDenyComputed /\ Resolved /\ p_node.can_read = "noone"
    /\ ~NoBrowserHeader
    /\ p_ctx.status = HTTP_FORBIDDEN

\* C5: a request whose path resolves to a readable directory and does not end
\* with a slash is redirected to the path with a slash appended, and nothing
\* else is done: no file, no archive, no default child, no front-end, no next.
C5_SlashRedirectOnly ==
    (Returned /\ Resolved /\ p_node.isDir /\ Readable(p_node) /\ ~EndsWithSlash(p_req.path))
        => /\ p_ctx.status = HTTP_FOUND
           /\ p_ctx.location = Append(p_req.path, "")
           /\ DispatcherCalls = {}
           /\ p_ctx.body # "zip"
           /\ p_def = Unresolved

C5_Witness ==
    /\ Returned /\ Resolved /\ p_node.isDir /\ Readable(p_node)
    /\ p_req.path = <<"d">> /\ p_req.get = "zip" /\ p_node.default
    /\ p_ctx.location = <<"d", "">>

\* ------------------------------------------------------------------------
\* C6
\* ------------------------------------------------------------------------
FsEffects == {"mkdirSync", "createWriteStream", "written"}

\* C6: a PUT whose parent node lacks can_upload for the acting identity creates
\* no directory, opens and writes no file, sets no success body, and ends
\* forbidden if the parent's can_upload is false and unauthorized otherwise; a
\* PUT whose parent resolves to no node ends not-found and writes nothing.
C6_UploadDenied ==
    /\ (p_folder.kind = "node" /\ ~matchWho(p_folder.can_upload, p_ctx.account))
          => /\ p_calls \cap FsEffects = {}
             /\ p_ctx.body # "{}"
             /\ Returned
             /\ p_ctx.status = IF p_folder.can_upload = "noone" THEN HTTP_FORBIDDEN
                               ELSE HTTP_UNAUTHORIZED
    /\ p_folder.kind = "missing"
          => /\ p_calls \cap FsEffects = {}
             /\ p_ctx.body # "{}"
             /\ Returned
             /\ p_ctx.status = HTTP_NOT_FOUND

C6_Witness ==
    /\ p_req.method = "PUT" /\ p_folder.kind = "node" /\ p_folder.source
    /\ p_folder.can_upload = "alice" /\ p_ctx.account = "bob"
    /\ p_ctx.status = HTTP_UNAUTHORIZED /\ p_pc = "done"

\* ------------------------------------------------------------------------
\* C10
\* ------------------------------------------------------------------------
\* C10 (as claimed): for a request on a socket with a known record, the record
\* is updated with the request's ctx, only after everything downstream has
\* completed, whether downstream returned or threw.
C10_UpdateAfterDownstream ==
    /\ (p_pc = "done" /\ p_ctx.connection # None)
          => connections[p_req.socket].ctx = p_id
    /\ (p_pc # "idle" /\ connections[p_req.socket].ctx = p_id)
          => p_down \in {"returned", "threw"}

\* ------------------------------------------------------------------------
\* C7
\* ------------------------------------------------------------------------
BothRunsDone == h_pc = "running" /\ \A m \in Runs : h_run[m].pc = "done"

\* C7 (as claimed): the same downstream chain run once as GET and once as HEAD
\* gives two responses of equal status and equal length header, and the HEAD
\* response has a body of zero bytes, for every downstream outcome.
C7_HeadEqualsGet ==
    BothRunsDone =>
        /\ h_run["HEAD"].resp.status = h_run["GET"].resp.status
        /\ h_run["HEAD"].resp.cl = h_run["GET"].resp.cl
        /\ h_run["HEAD"].resp.bytes = 0

\* ------------------------------------------------------------------------
\* C8, C9
\* ------------------------------------------------------------------------
\* the positions of the regular files among the first n entries, in order
RECURSIVE RegularFiles(_, _)
RegularFiles(es, n) ==
    IF n = 0 THEN <<>>
    ELSE IF es[n] = "file" THEN Append(RegularFiles(es, n - 1), n)
    ELSE RegularFiles(es, n - 1)

\* C8: a walk over N regular files interleaved with M entries that have no
\* source, fail stat or are no regular file feeds the encoder exactly the N
\* regular files, in walk order; no failure ends the sequence. (The client
\* stays connected: the aborted walk is C9's.)
C8_ExactlyRegularFiles ==
    /\ (z_pc = "end" /\ ~z_aborted)
          => (z_i = Len(z_entries) /\ z_emitted = RegularFiles(z_entries, Len(z_entries)))
    /\ (z_pc \in {"walk", "stat"} /\ ~z_aborted)
          => z_emitted = RegularFiles(z_entries, IF z_pc = "stat" THEN z_i - 1 ELSE z_i)

C8_Witness ==
    /\ z_pc = "end" /\ ~z_aborted
    /\ z_entries = <<"statfail", "file", "dir">>
    /\ z_emitted = <<2>>

\* C9 (as claimed): once the connection is aborted no stat is called and no
\* file is opened for any entry, under every interleaving of the abort with
\* the walk, an abort during a pending stat included.
C9_NoFsCallAfterAbort == \A e \in z_fs : ~e.aborted

\* ------------------------------------------------------------------------
\* C12
\* ------------------------------------------------------------------------
\* C12 (as claimed): whichever step of the gate raises an exception (the
\* peer-address normalization included), the request ends with HTTP_FOOL, the
\* next stage is not invoked and the exception does not leave someSecurity.
C12_FailClosed ==
    (g_pc = "done" /\ (g_req.thr # None \/ decodeURI(g_req.path).threw))
        => (g_ctx.status = HTTP_FOOL /\ ~g_ctx.nextCalled /\ ~g_ctx.threw)

\* ------------------------------------------------------------------------
\* C14
\* ------------------------------------------------------------------------
\* the request in the gate carries a forwarding header that is not suppressed
\* and passes the decoding, the traversal check and the blocklist
ProxiedRequestPasses ==
    /\ g_pc = "recv"
    /\ g_req.xff # ""
    /\ ~(DEV /\ g_req.devPort)
    /\ g_req.thr = None
    /\ ~decodeURI(g_req.path).threw
    /\ ~dirTraversal(decodeURI(g_req.path).val)
    /\ ~g_req.blocked

\* C14: the proxy-observed flag is monotonic: once true it stays true through
\* every later request (with or without the header, rejected, blocked or
\* failing); and it turns true only in a step that handles a request with a
\* non-empty, non-suppressed X-Forwarded-For that passes the traversal and
\* blocklist checks.
C14_ProxyFlagMonotonic ==
    [][/\ proxyDetected => proxyDetected'
       /\ (~proxyDetected /\ proxyDetected') => ProxiedRequestPasses]_vars

C14_Witness ==
    /\ proxyDetected
    /\ g_pc = "done"
    /\ g_req.xff = ""
    /\ g_ctx.status = HTTP_FOOL

\* ------------------------------------------------------------------------
\* C13
\* ------------------------------------------------------------------------
\* the Authorization header names an account but brings no password, or
\* names an account without verifier
NoProofMaterial ==
    /\ p_req.cred.present
    /\ p_req.cred.name \in Accounts
    /\ (p_req.cred.pass = "" \/ p_req.cred.name \notin SrpAccounts)

\* C13: with a missing or empty password, or an account without stored
\* verifier, srpCheck returns false without throwing and without calling
\* srpStep1, and getHttpAccount yields no account (the session alone decides).
C13_NoMaterialNoProof ==
    (PreDone /\ NoProofMaterial)
        => /\ "srpStep1" \notin p_calls
           /\ p_down # "authThrew"
           /\ p_ctx.account = IF p_req.session \in Accounts THEN p_req.session ELSE None

C13_Witness ==
    /\ PreDone /\ NoProofMaterial
    /\ p_req.cred.name = "alice" /\ p_req.cred.pass = ""
    /\ p_req.session = None
    /\ p_ctx.account = None /\ p_pc = "done"

\* ------------------------------------------------------------------------
\* C11
\* ------------------------------------------------------------------------
\* C11: under any interleaving of requests on distinct sockets, a connection
\* record changes only in the post-phase of the request on its own socket,
\* which found it before its downstream chain ran, and it then holds that
\* request's ctx; the record of a socket the tracker has not seen is never
\* made or updated.
C11_OwnRecordOnly ==
    [][\A s \in Sockets :
         connections'[s] # connections[s] =>
            /\ connections[s].known
            /\ \E i \in Slots :
                 /\ c_req[i].pc = "post" /\ c_req'[i].pc = "done"
                 /\ c_req[i].socket = s
                 /\ c_req[i].conn = s
                 /\ connections'[s] = [known |-> TRUE, ctx |-> c_req[i].id]]_vars

\* two requests in flight on two seen sockets; the later arrival has already
\* updated its record while the earlier one is still downstream
C11_Witness ==
    /\ c_req[1].pc = "next" /\ c_req[1].socket = "s1" /\ c_req[1].id = 1
    /\ c_req[2].pc = "done" /\ c_req[2].socket = "s2" /\ c_req[2].id = 2
    /\ connections["s2"].ctx = 2
    /\ connections["s1"].ctx = 0

\* ------------------------------------------------------------------------
\* C15
\* ------------------------------------------------------------------------
\* the request carries Basic credentials whose proof does not succeed
FailedProof == p_req.cred.present /\ ~ProofSucceeds(p_req.cred)

\* the request in flight, sent without its Authorization header
TwinReq == [p_req EXCEPT !.cred = NoCredentials]

\* the ctx and the calls the chain ends with for TwinReq when its lookups get
\* the answers the request in flight got and its upload, if any, is written
TwinRun ==
    LET c0 == IF TwinReq.bodySet THEN SetBody(FreshCtx, "upstream") ELSE FreshCtx
        c == [c0 EXCEPT !.account = ResolveAccount(TwinReq),
                        !.connection = socket2connection(TwinReq.socket)]
        r == Route(c, TwinReq)
    IN  IF r.to = "return" THEN [ctx |-> r.ctx, calls |-> r.calls]
        ELSE IF r.to = "putLookup"
            THEN LET u == UploadGuard(r.ctx, p_folder)
                 IN  IF u.to = "return" THEN [ctx |-> u.ctx, calls |-> u.calls]
                     ELSE [ctx |-> SetBody(u.ctx, "{}"),
                           calls |-> {"mkdirSync", "createWriteStream", "written"}]
        ELSE LET n == ServeNode(r.ctx, TwinReq, p_node)
             IN  IF ~n.await THEN [ctx |-> n.ctx, calls |-> n.calls]
                 ELSE LET d == ServeDefault(n.ctx, p_def)
                      IN  [ctx |-> d.ctx, calls |-> n.calls \cup d.calls]

\* C15: a request whose Basic credentials fail the proof (wrong or empty
\* password, unknown user, account without verifier) raises no error, gets the
\* acting account of the same request without Authorization header, and leaves
\* the dispatcher with the status, headers, body and delegations of that request.
C15_FailedProofAsAbsent ==
    /\ FailedProof => p_down # "authThrew"
    /\ (PreDone /\ FailedProof) => p_ctx.account = ResolveAccount(TwinReq)
    /\ (Returned /\ FailedProof) => (p_ctx = TwinRun.ctx /\ DispatcherCalls = TwinRun.calls)

C15_Witness ==
    /\ Returned /\ FailedProof
    /\ p_req.cred.name = "alice" /\ p_req.cred.pass = "wrong" /\ p_req.session = None
    /\ "srpStep1" \in p_calls
    /\ Resolved /\ p_node.can_read = "alice"
    /\ p_ctx.account = None /\ p_ctx.www

\* ------------------------------------------------------------------------
\* C16, C17
\* ------------------------------------------------------------------------
\* line 111 answered a node the acting identity may not read
DefaultDenied == p_def.kind = "node" /\ ~Readable(p_def)

\* C16 (as claimed): when the default child of a readable directory is not
\* readable, the response is the denial path's for that child: its denial
\* status and, for a soft denial, WWW-Authenticate: Basic without a browser
\* header or the front-end with the serveApp marker with one; the child is
\* never served.
C16_DefaultChildDenialPath ==
    (Returned /\ DefaultDenied)
        => /\ p_ctx.status = cantReadStatusCode(p_def)
           /\ "serveFileNode(def)" \notin p_calls
           /\ (p_def.can_read # "noone" /\ NoBrowserHeader) => p_ctx.www
           /\ (p_def.can_read # "noone" /\ ~NoBrowserHeader)
                 => (p_ctx.serveApp /\ "serveFrontendFiles" \in p_calls)

\* C17 (as claimed): when the default child of a readable directory resolves
\* to no node, the dispatcher ends as for a path that resolves to no node:
\* the not-found status set by the dispatcher, nothing else invoked.
C17_DefaultChildNotFound ==
    (Returned /\ p_def.kind = "missing")
        => /\ p_ctx.status = HTTP_NOT_FOUND
           /\ p_ctx.explicit
           /\ "next" \notin p_calls

\* ------------------------------------------------------------------------
\* C18
\* ------------------------------------------------------------------------
\* C18 (as claimed): a request that resolved to an acting account and is then
\* soft-denied never receives a Basic challenge.
C18_NoChallengeWhenAuthenticated ==
    (Returned /\ p_ctx.account # None /\ Resolved /\ ~Readable(p_node)
        /\ p_node.can_read # "noone")
        => ~p_ctx.www

\* ------------------------------------------------------------------------
\* C19
\* ------------------------------------------------------------------------
\* C19 (as claimed): no failure of an asynchronous operation inside the
\* dispatcher leaves serveGuiAndSharedFiles as an exception, and the body
\* `{}` is set only after the whole request body has been written.
C19_NoEscape ==
    /\ p_down # "threw"
    /\ p_ctx.body = "{}" => "written" \in p_calls

\* ------------------------------------------------------------------------
\* C20
\* ------------------------------------------------------------------------
SlashRedirect ==
    /\ p_node.isDir /\ ~EndsWithSlash(p_req.path)
    /\ p_ctx.status = HTTP_FOUND /\ p_ctx.location = Append(p_req.path, "")
    /\ DispatcherCalls = {}

BareDenial(node) ==
    /\ p_ctx.status = cantReadStatusCode(node)
    /\ ~p_ctx.www /\ ~p_ctx.serveApp /\ p_ctx.body = None

BasicChallenge ==
    /\ p_ctx.status = HTTP_UNAUTHORIZED
    /\ p_ctx.www /\ ~p_ctx.serveApp /\ p_ctx.body = None
    /\ DispatcherCalls = {}

FrontEndLogin ==
    /\ p_ctx.status = HTTP_UNAUTHORIZED
    /\ p_ctx.serveApp /\ ~p_ctx.www /\ p_ctx.body = None
    /\ DispatcherCalls = {"serveFrontendFiles"}

\* C20: on a non-PUT request outside the prefixes, serveFileNode and
\* zipStreamFromFolder are called only for a node whose can_read check for the
\* acting identity succeeded in this request; a node that fails the check
\* gets a slash redirect, a bare denial status, a Basic challenge or the
\* front-end with the serveApp marker, and nothing else.
C20_ServedOnlyIfReadable ==
    /\ "serveFileNode" \in p_calls => (Resolved /\ Readable(p_node) /\ ~p_node.isDir)
    /\ "zipStreamFromFolder" \in p_calls => (Resolved /\ Readable(p_node))
    /\ p_ctx.body = "zip" => "zipStreamFromFolder" \in p_calls
    /\ "serveFileNode(def)" \in p_calls
          => (Resolved /\ Readable(p_node) /\ p_def.kind = "node" /\ Readable(p_def))
    /\ (Returned /\ Resolved /\ ~Readable(p_node))
          => \/ SlashRedirect
             \/ BareDenial(p_node) /\ DispatcherCalls = {}
             \/ BasicChallenge
             \/ FrontEndLogin
    /\ (Returned /\ DefaultDenied)
          => BareDenial(p_def) /\ DispatcherCalls = {}

C20_Witness ==
    /\ Returned
    /\ Resolved /\ p_node.can_read = "anyAccount" /\ p_node.default
    /\ p_def.kind = "node" /\ p_def.can_read = "alice"
    /\ p_ctx.account = "alice"
    /\ "serveFileNode(def)" \in p_calls

=============================================================================
